---- MODULE Spec2Model ----
(***************************************************************************)
(* Client-side chat session and authentication synchronization core of     *)
(* the sakhi chat application: ApiService (token store and request         *)
(* executor), AuthProvider and ChatProvider, against a backend that may    *)
(* answer every call with success, an authorization failure, another       *)
(* error, or not at all.                                                   *)
(***************************************************************************)
EXTENDS Integers, Sequences, FiniteSets, TLC

\* ------------------------------------------------------------------ bounds
\* Concurrent asynchronous tasks: task 1 is the user's operation, the others
\* are the loadChatSessions calls started by the ChatProvider effect.
MaxTasks == 3
\* Nested refreshToken() -> request('/auth/refresh') levels of one request.
MaxNest == 2
\* Token pairs the backend issues in one run.
MaxTokens == 3
\* Chat sessions the backend creates in one run.
MaxSessions == 2
\* Ticks of the wall clock (new Date(), Date.now()).
MaxClock == 1
\* User operations started in one run.
MaxOps == 2

\* ------------------------------------------------------------ program data
\* content.slice(0, 30) + '...'
TitleMax == 30

Tasks == 1..MaxTasks

Ellipsis == <<".",".",".">>
LocalPrefix == <<"l","o","c","a","l","-">>
NewConversation == <<"N","e","w"," ","C","o","n","v","e","r","s","a","t","i","o","n">>
Hello == <<"H","e","l","l","o">>
LongContent == <<"E","x","p","l","a","i","n"," ","r","e","c","u","r","s","i","o","n"," ","i","n"," ","s","i","m","p","l","e"," ","t","e","r","m","s">>
\* What the user may type.
Contents == {Hello, LongContent}
\* The three canned replies of anonymous mode, each named by its opening words.
mockResponses == << <<"Hello! I'm Sakhi, your AI assistant!">>, <<"Hi there! Welcome to Sakhi!">>, <<"Hey! Great to meet you!">> >>
\* The backend's generated text: the assistant reply and the auto-title.
AiReply == <<"(AI reply)">>
AiTitle == <<"(AI title)">>

\* Error messages
MsgBackendDown == "Backend server is not running. Please check if the backend server is running"
MsgAuthRequired == "Authentication required"
MsgAuthFailed == "Authentication failed"
MsgDetail == "(detail of the backend's error payload)"
MsgHttp401 == "HTTP error! status: 401"
MsgHttp500 == "HTTP error! status: 500"

\* ----------------------------------------------------------------- strings
DigitChars == <<"0","1","2","3","4","5","6","7","8","9">>

\* Number.prototype.toString() of a natural number
RECURSIVE toString(_)
toString(n) == IF n < 10 THEN <<DigitChars[n + 1]>> ELSE toString(n \div 10) \o <<DigitChars[(n % 10) + 1]>>

IsDigit(c) == \E i \in 1..10 : DigitChars[i] = c
DigitValue(c) == (CHOOSE i \in 1..10 : DigitChars[i] = c) - 1

NaN == -1
\* parseInt(s): the value of the longest prefix of digits, NaN when there is none
RECURSIVE ParseDigits(_, _)
ParseDigits(s, acc) == IF s = <<>> \/ ~IsDigit(Head(s)) THEN acc ELSE ParseDigits(Tail(s), 10 * acc + DigitValue(Head(s)))
parseInt(s) == IF s = <<>> \/ ~IsDigit(Head(s)) THEN NaN ELSE ParseDigits(s, 0)

\* String.prototype.startsWith
startsWith(s, p) == Len(s) >= Len(p) /\ SubSeq(s, 1, Len(p)) = p
\* String.prototype.slice(0, n)
slice0(s, n) == SubSeq(s, 1, IF Len(s) < n THEN Len(s) ELSE n)

IsLocalId(id) == startsWith(id, LocalPrefix)

\* ------------------------------------------------------------------- state
VARIABLES
  accessToken,      \* ApiService.accessToken (0: null)
  localStorage,     \* [access_token, refresh_token] (0: no item)
  user,             \* AuthProvider state: 0 (null) or a user id
  authLoading,      \* AuthProvider isLoading
  authError,        \* AuthProvider error ("": null)
  isAuthenticated,  \* !!user && apiService.isAuthenticated(), as last rendered
  chatHistories,    \* ChatProvider state: the Session Directory, most recent first
  currentChat,      \* ChatProvider state: the session in focus, or NullChat
  server,           \* the backend: sessions, message logs, counters
  tasks,            \* the asynchronous calls in flight
  now,              \* the wall clock
  uuid,             \* uuidv4() values drawn so far
  started           \* user operations started so far

vars == <<accessToken, localStorage, user, authLoading, authError, isAuthenticated,
          chatHistories, currentChat, server, tasks, now, uuid, started>>

tokenVars == <<accessToken, localStorage>>
authVars == <<user, authLoading, authError>>
chatVars == <<chatHistories, currentChat>>

\* ------------------------------------------------------------------- types
NullChat == [id |-> <<>>, title |-> <<>>, messages |-> <<>>, createdAt |-> 0, updatedAt |-> 0]
Endpoint(name, id, body) == [name |-> name, id |-> id, body |-> body]

NoPayload == [tokens |-> 0, user |-> 0, sessions |-> <<>>, messages |-> <<>>, title |-> <<>>]
NoResult == [st |-> "none", msg |-> "", payload |-> NoPayload]
Returned(p) == [st |-> "ok", msg |-> "", payload |-> p]
Thrown(m) == [st |-> "error", msg |-> m, payload |-> NoPayload]

IdleTask == [op |-> "idle", pc |-> "", outcome |-> "", arg |-> <<>>, isAuthenticated |-> FALSE,
             currentChat |-> NullChat, chatHistories |-> <<>>,
             targetChat |-> NullChat, updatedChat |-> NullChat, finalChat |-> NullChat,
             stack |-> <<>>, net |-> <<>>, res |-> NoResult]

\* No promise continuation is waiting to run: the continuation of a settled
\* request, and that of a settled operation, run before any other event is handled.
NoDone == \A t \in Tasks : tasks[t].pc /= "done"
NoReady == NoDone /\ \A t \in Tasks : tasks[t].res.st = "none"
Idle(t) == tasks[t].op = "idle"
Awaiting(t) == tasks[t].stack /= <<>>

\* ------------------------------------------------------------- the backend
\* A session of the backend's store, and the ChatSession JSON it returns.
ServerSession(id, title, at) == [id |-> id, title |-> title, created_at |-> at, updated_at |-> at, messages |-> <<>>]
ChatSessionJson(s) == [id |-> s.id, title |-> s.title, created_at |-> s.created_at, updated_at |-> s.updated_at]
ServerMessage(id, content, isUser, at) == [id |-> id, content |-> content, is_user_message |-> isUser, timestamp |-> at]

ServerHas(id) == \E i \in 1..Len(server.sessions) : server.sessions[i].id = id
ServerIndex(id) == CHOOSE i \in 1..Len(server.sessions) : server.sessions[i].id = id
ServerLog(id) == server.sessions[ServerIndex(id)].messages

\* The calls the backend can answer with success in the current state.
ServerCanOk(ep) ==
  CASE ep.name \in {"login", "refreshToken"} -> server.issued < MaxTokens
    [] ep.name = "createChatSession" -> server.nextId <= MaxSessions
    [] ep.name \in {"getChatMessages", "sendMessage", "deleteChatSession", "updateSessionTitle"} -> ServerHas(ep.id)
    [] OTHER -> TRUE

\* A successful call: the JSON payload returned and the backend's state afterwards.
Serve(ep) ==
  CASE ep.name \in {"login", "refreshToken"} ->
         [payload |-> [NoPayload EXCEPT !.tokens = server.issued + 1],
          server |-> [server EXCEPT !.issued = @ + 1]]
    [] ep.name \in {"getCurrentUser", "register"} ->
         [payload |-> [NoPayload EXCEPT !.user = 1], server |-> server]
    [] ep.name = "getChatSessions" ->
         [payload |-> [NoPayload EXCEPT !.sessions = [i \in 1..Len(server.sessions) |-> ChatSessionJson(server.sessions[i])]],
          server |-> server]
    [] ep.name = "createChatSession" ->
         LET s == ServerSession(server.nextId, ep.body, now) IN
         [payload |-> [NoPayload EXCEPT !.sessions = <<ChatSessionJson(s)>>],
          server |-> [server EXCEPT !.sessions = <<s>> \o @, !.nextId = @ + 1]]
    [] ep.name = "getChatMessages" ->
         [payload |-> [NoPayload EXCEPT !.messages = ServerLog(ep.id)], server |-> server]
    [] ep.name = "sendMessage" ->
         LET i == ServerIndex(ep.id)
             m1 == ServerMessage(server.nextMsgId, ep.body, TRUE, now)
             m2 == ServerMessage(server.nextMsgId + 1, AiReply, FALSE, now)
         IN [payload |-> NoPayload,
             server |-> [server EXCEPT !.sessions[i].messages = @ \o <<m1, m2>>,
                                       !.sessions[i].updated_at = now,
                                       !.nextMsgId = @ + 2]]
    [] ep.name = "deleteChatSession" ->
         [payload |-> NoPayload,
          server |-> [server EXCEPT !.sessions = SelectSeq(@, LAMBDA s : s.id /= ep.id)]]
    [] ep.name = "updateSessionTitle" ->
         [payload |-> [NoPayload EXCEPT !.title = AiTitle],
          server |-> [server EXCEPT !.sessions[ServerIndex(ep.id)].title = AiTitle]]

\* ------------------------------------------------- ApiService: token store
NoTokens == [access_token |-> 0, refresh_token |-> 0]

\* Mutant of ApiLogout: the items in localStorage are not removed.
ApiLogout_MemoryOnly ==
  /\ accessToken' = 0
  /\ localStorage' = localStorage

\* ApiService.logout
ApiLogout ==
  /\ accessToken' = 0
  /\ localStorage' = NoTokens

\* Mutant of StoreTokens: the refresh token of the new pair is not persisted.
StoreTokens_AccessOnly(tok) ==
  /\ accessToken' = tok
  /\ localStorage' = [localStorage EXCEPT !.access_token = tok]

\* ApiService.login / ApiService.refreshToken: keep the pair of an AuthResponse.
StoreTokens(tok) ==
  /\ accessToken' = tok
  /\ localStorage' = [access_token |-> tok, refresh_token |-> tok]

\* ApiService.isAuthenticated
ApiIsAuthenticated == accessToken /= 0

\* --------------------------------------------- ApiService: request executor
\* A frame of request(): its endpoint, the Authorization header of its config
\* (0: none) and where it waits: "fetch" (line 948), "refresh" (line 956) or
\* "retry" (line 962). Between two request frames lies a refreshToken() frame.
Frame(ep, hdr) == [endpoint |-> ep, hdr |-> hdr, pc |-> "fetch"]
\* One fetch(url, config) as seen on the network, with the status it ended with.
Sent(f) == [name |-> f.endpoint.name, hdr |-> f.hdr, status |-> "pending"]

\* request(endpoint) up to its first await: the task's stack and network log.
Request(t, tk, ep, tok) ==
  LET f == Frame(ep, tok) IN
  [tk EXCEPT ![t].stack = <<f>>, ![t].net = @ \o <<Sent(f)>>, ![t].res = NoResult]

Top(t) == tasks[t].stack[Len(tasks[t].stack)]
Depth(t) == Len(tasks[t].stack)
Answered(t, status) == [tasks[t].net EXCEPT ![Len(tasks[t].net)].status = status]

\* Mutant of Throw: the catch at line 967 rethrows without logging out.
Throw_NoLogout(t, status, msg, logoutFirst) ==
  LET caught == tasks[t].stack[Len(tasks[t].stack)].pc = "retry" \/ Len(tasks[t].stack) > 1 IN
  /\ tasks' = [tasks EXCEPT ![t].stack = <<>>,
                            ![t].net = [tasks[t].net EXCEPT ![Len(tasks[t].net)].status = status],
                            ![t].res = Thrown(IF caught THEN MsgAuthFailed ELSE msg)]
  /\ IF logoutFirst THEN ApiLogout ELSE UNCHANGED tokenVars

\* The request of the top frame throws `msg`. A throw of the retry, or of the
\* nested request of refreshToken(), is caught at line 967 (after refreshToken's
\* own catch at line 1034): logout, 'Authentication failed'.
Throw(t, status, msg, logoutFirst) ==
  LET caught == Top(t).pc = "retry" \/ Depth(t) > 1 IN
  /\ tasks' = [tasks EXCEPT ![t].stack = <<>>,
                            ![t].net = Answered(t, status),
                            ![t].res = Thrown(IF caught THEN MsgAuthFailed ELSE msg)]
  /\ IF caught \/ logoutFirst THEN ApiLogout ELSE UNCHANGED tokenVars

\* The backend answers the outstanding fetch with a 2xx status.
FetchOk(t) ==
  /\ Awaiting(t) /\ NoReady
  /\ ServerCanOk(Top(t).endpoint)
  /\ LET sv == Serve(Top(t).endpoint)
         d == Depth(t)
     IN /\ server' = sv.server
        /\ IF d = 1
           THEN /\ tasks' = [tasks EXCEPT ![t].stack = <<>>,
                                          ![t].net = Answered(t, "200"),
                                          ![t].res = Returned(sv.payload)]
                /\ UNCHANGED tokenVars
           ELSE \* refreshToken() stores the new pair; the caller retries
                LET retry == [tasks[t].stack[d - 1] EXCEPT !.pc = "retry", !.hdr = sv.payload.tokens] IN
                /\ StoreTokens(sv.payload.tokens)
                /\ tasks' = [tasks EXCEPT ![t].stack = SubSeq(@, 1, d - 2) \o <<retry>>,
                                          ![t].net = Answered(t, "200") \o <<Sent(retry)>>]
  /\ UNCHANGED <<authVars, isAuthenticated, chatVars, now, uuid, started>>

\* The backend answers the outstanding fetch with 401.
FetchUnauthorized(t) ==
  /\ Awaiting(t) /\ NoReady
  /\ IF Top(t).pc = "retry"
     THEN Throw(t, "401", MsgHttp401, FALSE)
     ELSE IF accessToken /= 0
          THEN IF localStorage.refresh_token /= 0
               THEN \* refreshToken(): request('/auth/refresh')
                    LET f == Frame(Endpoint("refreshToken", localStorage.refresh_token, <<>>), accessToken) IN
                    /\ Depth(t) <= MaxNest
                    /\ tasks' = [tasks EXCEPT ![t].stack = [@ EXCEPT ![Depth(t)].pc = "refresh"] \o <<f>>,
                                              ![t].net = Answered(t, "401") \o <<Sent(f)>>]
                    /\ UNCHANGED tokenVars
               ELSE Throw(t, "401", MsgAuthRequired, TRUE)
          ELSE \E detail \in {MsgDetail, MsgHttp401} : Throw(t, "401", detail, FALSE)
  /\ UNCHANGED <<authVars, isAuthenticated, chatVars, server, now, uuid, started>>

\* The backend answers the outstanding fetch with another error status.
FetchError(t, msg) ==
  /\ Awaiting(t) /\ NoReady
  /\ Throw(t, "500", msg, FALSE)
  /\ UNCHANGED <<authVars, isAuthenticated, chatVars, server, now, uuid, started>>

\* fetch itself rejects: the backend cannot be reached.
FetchNetworkError(t) ==
  /\ Awaiting(t) /\ NoReady
  /\ Throw(t, "network", MsgBackendDown, FALSE)
  /\ UNCHANGED <<authVars, isAuthenticated, chatVars, server, now, uuid, started>>

\* ------------------------------------------------- callers of the executor
ProtectedCalls == {Endpoint("getCurrentUser", 0, <<>>), Endpoint("getChatSessions", 0, <<>>)}

\* Some caller invokes a method of apiService that is one protected request.
ApiCall(t) ==
  /\ Idle(t) /\ NoReady
  /\ started < MaxOps
  /\ \E ep \in ProtectedCalls :
       tasks' = Request(t, [tasks EXCEPT ![t] = [IdleTask EXCEPT !.op = "request", !.pc = "await"]], ep, accessToken)
  /\ started' = started + 1
  /\ UNCHANGED <<tokenVars, authVars, isAuthenticated, chatVars, server, now, uuid>>

\* The method's promise settles: the caller sees the payload or the error.
ApiSettled(t) ==
  /\ tasks[t].op = "request" /\ tasks[t].res.st /= "none"
  /\ tasks' = [tasks EXCEPT ![t] = IdleTask]
  /\ UNCHANGED <<tokenVars, authVars, isAuthenticated, chatVars, server, now, uuid, started>>

\* The clock advances. Time is followed at the grain of the user's operations:
\* it advances between them, not while one is in flight.
Tick ==
  /\ NoReady
  /\ \A t \in Tasks : tasks[t].op \in {"idle", "loadChatSessions"}
  /\ now < MaxClock
  /\ now' = now + 1
  /\ UNCHANGED <<tokenVars, authVars, isAuthenticated, chatVars, server, tasks, uuid, started>>

EmptyServer == [sessions |-> <<>>, nextId |-> 1, nextMsgId |-> 1, issued |-> 1]

\* The page has just loaded: the ApiService constructor has read localStorage.
InitCommon ==
  /\ user = 0 /\ authError = ""
  /\ isAuthenticated = FALSE
  /\ chatHistories = <<>> /\ currentChat = NullChat
  /\ tasks = [t \in Tasks |-> IdleTask]
  /\ now = 0 /\ uuid = 0 /\ started = 0

\* The executor alone: whatever item pair an earlier page load left in
\* localStorage, one request at a time.
InitExec ==
  /\ InitCommon
  /\ authLoading = TRUE
  /\ localStorage \in {NoTokens, [access_token |-> 1, refresh_token |-> 1], [access_token |-> 1, refresh_token |-> 0]}
  /\ accessToken = localStorage.access_token
  /\ server = EmptyServer

NextExec ==
  \/ ApiCall(1)
  \/ ApiSettled(1)
  \/ FetchOk(1)
  \/ FetchUnauthorized(1)
  \/ \E msg \in {MsgDetail, MsgHttp500} : FetchError(1, msg)
  \/ FetchNetworkError(1)

SpecExec == InitExec /\ [][NextExec]_vars

\* ------------------------------------------------------------ ChatProvider
\* convertApiChatToLocal's message mapping (also inlined in selectChat and sendMessage)
convertMessage(msg) ==
  [id |-> toString(msg.id), content |-> msg.content,
   role |-> IF msg.is_user_message THEN "user" ELSE "assistant", timestamp |-> msg.timestamp]
convertMessages(messages) == [i \in 1..Len(messages) |-> convertMessage(messages[i])]

convertApiChatToLocal(session, messages) ==
  [id |-> toString(session.id), title |-> session.title, messages |-> convertMessages(messages),
   createdAt |-> session.created_at, updatedAt |-> session.updated_at]

\* The local-only chat of createNewChat and sendMessage
LocalChat(at) ==
  [id |-> LocalPrefix \o toString(at), title |-> NewConversation, messages |-> <<>>,
   createdAt |-> at, updatedAt |-> at]

\* Array.prototype.find(h => h.id === chatId): the first match, or NullChat
Has(h, chatId) == \E i \in 1..Len(h) : h[i].id = chatId
Find(h, chatId) ==
  IF Has(h, chatId)
  THEN h[CHOOSE i \in 1..Len(h) : h[i].id = chatId /\ \A j \in 1..(i - 1) : h[j].id /= chatId]
  ELSE NullChat
\* prev.map(h => h.id === chatId ? chat : h)
MapReplace(h, chatId, chat) == [i \in 1..Len(h) |-> IF h[i].id = chatId THEN chat ELSE h[i]]
\* chatHistories.filter(h => h.id !== chatId)
Without(h, chatId) == SelectSeq(h, LAMBDA c : c.id /= chatId)
\* Mutant of OnlyLocal: every chat is kept.
OnlyLocal_All(h) == h
\* prev.filter(chat => chat.id.startsWith('local-'))
OnlyLocal(h) == SelectSeq(h, LAMBDA c : IsLocalId(c.id))
\* updatedHistories.length > 0 ? updatedHistories[0] : null
FirstOrNull(h) == IF Len(h) > 0 THEN h[1] ELSE NullChat

\* An async callback as called, with isAuthenticated of its closure. The
\* callbacks that read chatHistories or currentChat after an await keep them too.
Op(name, pc) == [IdleTask EXCEPT !.op = name, !.pc = pc, !.isAuthenticated = isAuthenticated]
Closure(call) == [call EXCEPT !.currentChat = currentChat, !.chatHistories = chatHistories]
\* The callback's promise resolves.
Done(task, outcome) == [task EXCEPT !.pc = "done", !.outcome = outcome, !.stack = <<>>, !.res = NoResult]
Ready(t, op, pc) == tasks[t].op = op /\ tasks[t].pc = pc /\ tasks[t].res.st /= "none" /\ NoDone

HasFree(tk) == \E r \in 2..MaxTasks : tk[r].op = "idle"
FreeSlot(tk) == CHOOSE r \in 2..MaxTasks : tk[r].op = "idle" /\ \A q \in 2..(r - 1) : tk[q].op /= "idle"

\* Which dependency of the effect had changed when it called loadChatSessions
OnLogin == <<"isAuthenticated">>
OnCurrentChat == <<"loadChatSessions">>

\* A closure's currentChat of which only `!currentChat` is read
SomeChat == [NullChat EXCEPT !.id = <<"?">>]

\* loadChatSessions() as the effect calls it, up to the await of the session
\* list. Two calls in flight in the same state are followed as one.
LoadCall(c, trigger) ==
  LET call == [IdleTask EXCEPT !.op = "loadChatSessions", !.pc = "sessions", !.isAuthenticated = TRUE,
                               !.arg = trigger,
                               !.currentChat = IF c = NullChat THEN NullChat ELSE SomeChat]
      f == Frame(Endpoint("getChatSessions", 0, <<>>), accessToken)
  IN [call EXCEPT !.stack = <<f>>, !.net = <<Sent(f)>>]

\* The render that follows a batch of state updates, and the ChatProvider
\* effect after it. h, c: chatHistories and currentChat as set; touched: whether
\* setCurrentChat was given a new object; a: isAuthenticated as AuthProvider
\* renders it. The effect depends on isAuthenticated and on loadChatSessions,
\* which is rebuilt whenever isAuthenticated or currentChat changes: it calls
\* loadChatSessions() when authenticated, and otherwise keeps the local chats.
Commit(tk, h, c, touched, a) ==
  /\ isAuthenticated' = a
  /\ IF touched \/ a /= isAuthenticated
     THEN IF a
          THEN /\ LET call == LoadCall(c, IF a /= isAuthenticated THEN OnLogin ELSE OnCurrentChat) IN
                  IF \E r \in 2..MaxTasks : tk[r] = call
                  THEN tasks' = tk
                  ELSE HasFree(tk) /\ tasks' = [tk EXCEPT ![FreeSlot(tk)] = call]
               /\ chatHistories' = h
               /\ currentChat' = c
          ELSE /\ tasks' = tk
               /\ chatHistories' = OnlyLocal(h)
               /\ currentChat' = IF IsLocalId(c.id) THEN c ELSE NullChat
     ELSE /\ tasks' = tk
          /\ chatHistories' = h
          /\ currentChat' = c

\* loadChatSessions: the session list has arrived
loadChatSessions_Listed(r) ==
  /\ Ready(r, "loadChatSessions", "sessions")
  /\ IF tasks[r].res.st = "ok"
     THEN LET sessions == tasks[r].res.payload.sessions
              histories == [i \in 1..Len(sessions) |-> convertApiChatToLocal(sessions[i], <<>>)]
          IN IF Len(histories) > 0 /\ tasks[r].currentChat = NullChat
             THEN Commit(Request(r, [tasks EXCEPT ![r].pc = "messages", ![r].chatHistories = histories,
                                                  ![r].outcome = IF histories = chatHistories THEN "same" ELSE "replaced"],
                                 Endpoint("getChatMessages", parseInt(histories[1].id), <<>>), accessToken),
                         histories, currentChat, FALSE, isAuthenticated)
             ELSE Commit([tasks EXCEPT ![r] = IdleTask], histories, currentChat, FALSE, isAuthenticated)
     ELSE Commit([tasks EXCEPT ![r] = IdleTask], chatHistories, currentChat, FALSE, isAuthenticated)
  /\ UNCHANGED <<tokenVars, authVars, server, now, uuid, started>>

\* loadChatSessions: the most recent session's messages have arrived
loadChatSessions_Loaded(r) ==
  /\ Ready(r, "loadChatSessions", "messages")
  /\ IF tasks[r].res.st = "ok"
     THEN LET fullChat == [tasks[r].chatHistories[1] EXCEPT !.messages = convertMessages(tasks[r].res.payload.messages)]
          IN Commit([tasks EXCEPT ![r] = IdleTask], chatHistories, fullChat, TRUE, isAuthenticated)
     ELSE Commit([tasks EXCEPT ![r] = IdleTask], chatHistories, currentChat, FALSE, isAuthenticated)
  /\ UNCHANGED <<tokenVars, authVars, server, now, uuid, started>>

\* createNewChat without its `!isAuthenticated` branch
createNewChat_Remote(t) ==
  /\ Idle(t) /\ NoReady /\ started < MaxOps
  /\ started' = started + 1
  /\ tasks' = Request(t, [tasks EXCEPT ![t] = Op("createNewChat", "create")],
                      Endpoint("createChatSession", 0, NewConversation), accessToken)
  /\ UNCHANGED <<chatVars, isAuthenticated, tokenVars, authVars, server, now, uuid>>

createNewChat(t) ==
  /\ Idle(t) /\ NoReady /\ started < MaxOps
  /\ started' = started + 1
  /\ IF ~isAuthenticated
     THEN LET newChat == LocalChat(now) IN
          Commit([tasks EXCEPT ![t] = Done(Op("createNewChat", ""), "local")],
                 <<newChat>> \o chatHistories, newChat, TRUE, isAuthenticated)
     ELSE /\ tasks' = Request(t, [tasks EXCEPT ![t] = Op("createNewChat", "create")],
                              Endpoint("createChatSession", 0, NewConversation), accessToken)
          /\ UNCHANGED <<chatVars, isAuthenticated>>
  /\ UNCHANGED <<tokenVars, authVars, server, now, uuid>>

\* Mutant of createNewChat_Created: a failed creation clears the current session.
createNewChat_Created_Clearing(t) ==
  /\ tasks[t].op = "createNewChat" /\ tasks[t].pc = "create" /\ tasks[t].res.st /= "none"
  /\ LET resolved == [tasks EXCEPT ![t].pc = "done", ![t].outcome = "failed", ![t].res = NoResult] IN
     IF tasks[t].res.st = "ok"
     THEN LET newChat == convertApiChatToLocal(tasks[t].res.payload.sessions[1], <<>>) IN
          Commit(resolved, <<newChat>> \o chatHistories, newChat, TRUE, isAuthenticated)
     ELSE Commit(resolved, chatHistories, NullChat, TRUE, isAuthenticated)
  /\ UNCHANGED <<tokenVars, authVars, server, now, uuid, started>>

createNewChat_Created(t) ==
  /\ Ready(t, "createNewChat", "create")
  /\ IF tasks[t].res.st = "ok"
     THEN LET newChat == convertApiChatToLocal(tasks[t].res.payload.sessions[1], <<>>) IN
          Commit([tasks EXCEPT ![t] = Done(tasks[t], "created")],
                 <<newChat>> \o chatHistories, newChat, TRUE, isAuthenticated)
     ELSE Commit([tasks EXCEPT ![t] = Done(tasks[t], "failed")], chatHistories, currentChat, FALSE, isAuthenticated)
  /\ UNCHANGED <<tokenVars, authVars, server, now, uuid, started>>

selectChat(t, chatId) ==
  /\ Idle(t) /\ NoReady /\ started < MaxOps
  /\ Has(chatHistories, chatId)
  /\ started' = started + 1
  /\ LET call == [Closure(Op("selectChat", "messages")) EXCEPT !.arg = chatId] IN
     IF IsLocalId(chatId)
     THEN LET localChat == Find(chatHistories, chatId) IN
          Commit([tasks EXCEPT ![t] = Done(call, "local")], chatHistories, localChat,
                 localChat /= currentChat, isAuthenticated)
     ELSE IF ~isAuthenticated
          THEN Commit([tasks EXCEPT ![t] = Done(call, "ignored")], chatHistories, currentChat, FALSE, isAuthenticated)
          ELSE /\ tasks' = Request(t, [tasks EXCEPT ![t] = call],
                                   Endpoint("getChatMessages", parseInt(chatId), <<>>), accessToken)
               /\ UNCHANGED <<chatVars, isAuthenticated>>
  /\ UNCHANGED <<tokenVars, authVars, server, now, uuid>>

selectChat_Loaded(t) ==
  /\ Ready(t, "selectChat", "messages")
  /\ LET session == Find(tasks[t].chatHistories, tasks[t].arg) IN
     IF tasks[t].res.st = "ok" /\ session /= NullChat
     THEN LET fullChat == [session EXCEPT !.messages = convertMessages(tasks[t].res.payload.messages)] IN
          Commit([tasks EXCEPT ![t] = Done(tasks[t], "loaded")], chatHistories, fullChat, TRUE, isAuthenticated)
     ELSE Commit([tasks EXCEPT ![t] = Done(tasks[t], "failed")], chatHistories, currentChat, FALSE, isAuthenticated)
  /\ UNCHANGED <<tokenVars, authVars, server, now, uuid, started>>

\* Mutant of Dispatch: the optimistic update reaches the current session only.
Dispatch_CurrentOnly(t, call, targetChat, h, content) ==
  LET userMessage == [id |-> <<"u">> \o toString(uuid), content |-> content, role |-> "user", timestamp |-> now]
      updatedChat == [targetChat EXCEPT
                        !.messages = @ \o <<userMessage>>,
                        !.title = IF Len(targetChat.messages) = 0 THEN slice0(content, TitleMax) \o Ellipsis ELSE @,
                        !.updatedAt = now]
      locals == [call EXCEPT !.arg = content, !.targetChat = targetChat, !.updatedChat = updatedChat]
      tk == IF call.isAuthenticated /\ ~IsLocalId(targetChat.id)
            THEN Request(t, [tasks EXCEPT ![t] = [locals EXCEPT !.pc = "post"]],
                         Endpoint("sendMessage", parseInt(targetChat.id), content), accessToken)
            ELSE [tasks EXCEPT ![t] = [locals EXCEPT !.pc = "delay", !.res = NoResult, !.stack = <<>>]]
  IN /\ Commit(tk, h, updatedChat, TRUE, isAuthenticated)
     /\ uuid' = uuid + 1

\* sendMessage from the user message on: the optimistic update and the dispatch,
\* up to the await of the POST or of the artificial delay.
Dispatch(t, call, targetChat, h, content) ==
  LET userMessage == [id |-> <<"u">> \o toString(uuid), content |-> content, role |-> "user", timestamp |-> now]
      updatedChat == [targetChat EXCEPT
                        !.messages = @ \o <<userMessage>>,
                        !.title = IF Len(targetChat.messages) = 0 THEN slice0(content, TitleMax) \o Ellipsis ELSE @,
                        !.updatedAt = now]
      locals == [call EXCEPT !.arg = content, !.targetChat = targetChat, !.updatedChat = updatedChat]
      tk == IF call.isAuthenticated /\ ~IsLocalId(targetChat.id)
            THEN Request(t, [tasks EXCEPT ![t] = [locals EXCEPT !.pc = "post"]],
                         Endpoint("sendMessage", parseInt(targetChat.id), content), accessToken)
            ELSE [tasks EXCEPT ![t] = [locals EXCEPT !.pc = "delay", !.res = NoResult, !.stack = <<>>]]
  IN /\ Commit(tk, MapReplace(h, targetChat.id, updatedChat), updatedChat, TRUE, isAuthenticated)
     /\ uuid' = uuid + 1

sendMessage(t, content) ==
  /\ Idle(t) /\ NoReady /\ started < MaxOps
  /\ started' = started + 1
  /\ LET call == Op("sendMessage", "") IN
     IF currentChat /= NullChat
     THEN Dispatch(t, call, currentChat, chatHistories, content)
     ELSE IF isAuthenticated
          THEN /\ tasks' = Request(t, [tasks EXCEPT ![t] = [call EXCEPT !.pc = "create", !.arg = content]],
                                   Endpoint("createChatSession", 0, NewConversation), accessToken)
               /\ UNCHANGED <<chatVars, isAuthenticated, uuid>>
          ELSE Dispatch(t, call, LocalChat(now), <<LocalChat(now)>> \o chatHistories, content)
  /\ UNCHANGED <<tokenVars, authVars, server, now>>

\* Mutant of sendMessage_Created: the created session is not put in the Directory.
sendMessage_Created_NotPrepended(t) ==
  /\ tasks[t].op = "sendMessage" /\ tasks[t].pc = "create" /\ tasks[t].res.st /= "none"
  /\ IF tasks[t].res.st = "ok"
     THEN LET targetChat == convertApiChatToLocal(tasks[t].res.payload.sessions[1], <<>>) IN
          Dispatch(t, tasks[t], targetChat, chatHistories, tasks[t].arg)
     ELSE /\ Commit([tasks EXCEPT ![t].pc = "done", ![t].outcome = "createFailed", ![t].res = NoResult],
                    chatHistories, currentChat, FALSE, isAuthenticated)
          /\ UNCHANGED uuid
  /\ UNCHANGED <<tokenVars, authVars, server, now, started>>

\* sendMessage: the session created for the message has arrived
sendMessage_Created(t) ==
  /\ Ready(t, "sendMessage", "create")
  /\ IF tasks[t].res.st = "ok"
     THEN LET targetChat == convertApiChatToLocal(tasks[t].res.payload.sessions[1], <<>>) IN
          Dispatch(t, tasks[t], targetChat, <<targetChat>> \o chatHistories, tasks[t].arg)
     ELSE /\ Commit([tasks EXCEPT ![t] = Done(tasks[t], "createFailed")], chatHistories, currentChat, FALSE, isAuthenticated)
          /\ UNCHANGED uuid
  /\ UNCHANGED <<tokenVars, authVars, server, now, started>>

\* Mutant of Revert: the catch restores the Directory entry only.
Revert_DirectoryOnly(t) ==
  Commit([tasks EXCEPT ![t] = Done(tasks[t], "reverted")],
         MapReplace(chatHistories, tasks[t].targetChat.id, tasks[t].targetChat),
         currentChat, FALSE, isAuthenticated)

\* sendMessage's catch: revert the optimistic update
Revert(t) ==
  Commit([tasks EXCEPT ![t] = Done(tasks[t], "reverted")],
         MapReplace(chatHistories, tasks[t].targetChat.id, tasks[t].targetChat),
         tasks[t].targetChat, TRUE, isAuthenticated)

\* sendMessage: the POST of the message has been answered
sendMessage_Posted(t) ==
  /\ Ready(t, "sendMessage", "post")
  /\ IF tasks[t].res.st = "ok"
     THEN /\ tasks' = Request(t, [tasks EXCEPT ![t].pc = "refetch"],
                              Endpoint("getChatMessages", parseInt(tasks[t].targetChat.id), <<>>), accessToken)
          /\ UNCHANGED <<chatVars, isAuthenticated>>
     ELSE Revert(t)
  /\ UNCHANGED <<tokenVars, authVars, server, now, uuid, started>>

\* finalChat of the remote path: the re-fetched log replaces the local one
Reconciled(updatedChat, updatedMessages, at) ==
  [updatedChat EXCEPT !.messages = convertMessages(updatedMessages), !.updatedAt = at]

\* sendMessage: the re-fetch of the message log has been answered
sendMessage_Refetched(t) ==
  /\ Ready(t, "sendMessage", "refetch")
  /\ IF tasks[t].res.st = "ok"
     THEN LET finalChat == Reconciled(tasks[t].updatedChat, tasks[t].res.payload.messages, now)
              locals == [tasks[t] EXCEPT !.finalChat = finalChat]
              tk == IF Len(tasks[t].targetChat.messages) = 0
                    THEN Request(t, [tasks EXCEPT ![t] = [locals EXCEPT !.pc = "title"]],
                                 Endpoint("updateSessionTitle", parseInt(tasks[t].targetChat.id), <<>>), accessToken)
                    ELSE [tasks EXCEPT ![t] = Done(locals, "reconciled")]
          IN Commit(tk, MapReplace(chatHistories, tasks[t].targetChat.id, finalChat), finalChat, TRUE, isAuthenticated)
     ELSE Revert(t)
  /\ UNCHANGED <<tokenVars, authVars, server, now, uuid, started>>

\* Mutant of WithTitle: the speculative title is kept.
WithTitle_Speculative(finalChat, title) == finalChat

\* chatWithTitle: finalChat under the title the backend generated
WithTitle(finalChat, title) == [finalChat EXCEPT !.title = title]

\* sendMessage: the title call has been answered
sendMessage_Titled(t) ==
  /\ Ready(t, "sendMessage", "title")
  /\ IF tasks[t].res.st = "ok"
     THEN LET chatWithTitle == WithTitle(tasks[t].finalChat, tasks[t].res.payload.title) IN
          Commit([tasks EXCEPT ![t] = Done([tasks[t] EXCEPT !.finalChat = chatWithTitle], "titled")],
                 MapReplace(chatHistories, tasks[t].targetChat.id, chatWithTitle), chatWithTitle, TRUE, isAuthenticated)
     ELSE Commit([tasks EXCEPT ![t] = Done(tasks[t], "titleFailed")], chatHistories, currentChat, FALSE, isAuthenticated)
  /\ UNCHANGED <<tokenVars, authVars, server, now, uuid, started>>

\* sendMessage: the artificial delay is over; the canned reply is appended
\* (randomResponse, drawn before the delay, is read only here)
sendMessage_MockReply(t) ==
  /\ tasks[t].op = "sendMessage" /\ tasks[t].pc = "delay" /\ NoDone
  /\ \E i \in 1..Len(mockResponses) :
       LET aiMessage == [id |-> <<"u">> \o toString(uuid), content |-> mockResponses[i],
                         role |-> "assistant", timestamp |-> now]
           finalChat == [tasks[t].updatedChat EXCEPT !.messages = @ \o <<aiMessage>>, !.updatedAt = now]
       IN Commit([tasks EXCEPT ![t] = Done([tasks[t] EXCEPT !.finalChat = finalChat], "mock")],
                 MapReplace(chatHistories, tasks[t].targetChat.id, finalChat), finalChat, TRUE, isAuthenticated)
  /\ uuid' = uuid + 1
  /\ UNCHANGED <<tokenVars, authVars, server, now, started>>

\* Mutant of Removed: the Directory is left as it was.
Removed_Nothing(h, chatId) == h

\* updatedHistories of deleteChat
Removed(h, chatId) == Without(h, chatId)

\* deleteChat without its branch for local chats
deleteChat_NoLocalBranch(t, chatId) ==
  /\ Idle(t) /\ NoReady /\ started < MaxOps
  /\ Has(chatHistories, chatId)
  /\ started' = started + 1
  /\ LET call == [[[IdleTask EXCEPT !.op = "deleteChat", !.pc = "delete", !.isAuthenticated = isAuthenticated]
                     EXCEPT !.currentChat = currentChat, !.chatHistories = chatHistories] EXCEPT !.arg = chatId] IN
     IF ~isAuthenticated
     THEN /\ tasks' = [tasks EXCEPT ![t] = [call EXCEPT !.pc = "done", !.outcome = "ignored"]]
          /\ UNCHANGED <<chatVars, isAuthenticated>>
     ELSE /\ tasks' = Request(t, [tasks EXCEPT ![t] = call],
                              Endpoint("deleteChatSession", parseInt(chatId), <<>>), accessToken)
          /\ UNCHANGED <<chatVars, isAuthenticated>>
  /\ UNCHANGED <<tokenVars, authVars, server, now, uuid>>

\* deleteChat's state update, from the chatHistories and currentChat of its closure
Delete(t, call, outcome) ==
  LET updatedHistories == Removed(call.chatHistories, call.arg) IN
  IF call.currentChat.id = call.arg
  THEN Commit([tasks EXCEPT ![t] = Done(call, outcome)], updatedHistories, FirstOrNull(updatedHistories),
              FirstOrNull(updatedHistories) /= currentChat, isAuthenticated)
  ELSE Commit([tasks EXCEPT ![t] = Done(call, outcome)], updatedHistories, currentChat, FALSE, isAuthenticated)

deleteChat(t, chatId) ==
  /\ Idle(t) /\ NoReady /\ started < MaxOps
  /\ Has(chatHistories, chatId)
  /\ started' = started + 1
  /\ LET call == [Closure(Op("deleteChat", "delete")) EXCEPT !.arg = chatId] IN
     IF IsLocalId(chatId)
     THEN Delete(t, call, "local")
     ELSE IF ~isAuthenticated
          THEN Commit([tasks EXCEPT ![t] = Done(call, "ignored")], chatHistories, currentChat, FALSE, isAuthenticated)
          ELSE /\ tasks' = Request(t, [tasks EXCEPT ![t] = call],
                                   Endpoint("deleteChatSession", parseInt(chatId), <<>>), accessToken)
               /\ UNCHANGED <<chatVars, isAuthenticated>>
  /\ UNCHANGED <<tokenVars, authVars, server, now, uuid>>

\* deleteChat: the server delete has been answered
deleteChat_Deleted(t) ==
  /\ Ready(t, "deleteChat", "delete")
  /\ IF tasks[t].res.st = "ok"
     THEN Delete(t, tasks[t], "deleted")
     ELSE Commit([tasks EXCEPT ![t] = Done(tasks[t], "failed")], chatHistories, currentChat, FALSE, isAuthenticated)
  /\ UNCHANGED <<tokenVars, authVars, server, now, uuid, started>>

\* The caller's continuation after a resolved operation: nothing is left of it.
Settle(t) ==
  /\ tasks[t].pc = "done"
  /\ tasks' = [tasks EXCEPT ![t] = IdleTask]
  /\ UNCHANGED <<tokenVars, authVars, isAuthenticated, chatVars, server, now, uuid, started>>

\* ------------------------------------------------------------ AuthProvider
\* Mutant of LoginMessage: the raw message is shown.
LoginMessage_Raw(msg) == msg

\* login's catch: the user-facing message
LoginMessage(msg) ==
  CASE msg = MsgBackendDown -> "Backend server is not running. Please start the backend server."
    [] msg = MsgAuthRequired -> "Please check your credentials and try again."
    [] msg = MsgAuthFailed -> "Session expired. Please login again."
    [] OTHER -> msg

\* The callback's promise rejects with the error it caught (`throw err`).
Rejected(task) == [Done(task, "failed") EXCEPT !.res = task.res]

\* isAuthenticated as AuthProvider renders it
Rendered(u, tok) == u /= 0 /\ tok /= 0

login(t) ==
  /\ Idle(t) /\ NoReady /\ started < MaxOps
  /\ started' = started + 1
  /\ authLoading' = TRUE /\ authError' = "" /\ user' = user
  /\ Commit(Request(t, [tasks EXCEPT ![t] = Op("login", "login")], Endpoint("login", 0, <<>>), accessToken),
            chatHistories, currentChat, FALSE, Rendered(user, accessToken))
  /\ UNCHANGED <<tokenVars, server, now, uuid>>

\* login: /auth/login has been answered
login_LoggedIn(t) ==
  /\ Ready(t, "login", "login")
  /\ IF tasks[t].res.st = "ok"
     THEN /\ StoreTokens(tasks[t].res.payload.tokens)
          /\ tasks' = Request(t, [tasks EXCEPT ![t].pc = "me"], Endpoint("getCurrentUser", 0, <<>>),
                              tasks[t].res.payload.tokens)
          /\ UNCHANGED <<authVars, chatVars, isAuthenticated>>
     ELSE /\ authError' = LoginMessage(tasks[t].res.msg) /\ authLoading' = FALSE /\ user' = user
          /\ Commit([tasks EXCEPT ![t] = Rejected(tasks[t])], chatHistories, currentChat, FALSE,
                    Rendered(user, accessToken))
          /\ UNCHANGED tokenVars
  /\ UNCHANGED <<server, now, uuid, started>>

\* login: /auth/me has been answered
login_Profile(t) ==
  /\ Ready(t, "login", "me")
  /\ IF tasks[t].res.st = "ok"
     THEN /\ user' = tasks[t].res.payload.user /\ authLoading' = FALSE /\ authError' = authError
          /\ Commit([tasks EXCEPT ![t] = Done(tasks[t], "loggedIn")], chatHistories, currentChat, FALSE,
                    Rendered(tasks[t].res.payload.user, accessToken))
     ELSE /\ authError' = LoginMessage(tasks[t].res.msg) /\ authLoading' = FALSE /\ user' = user
          /\ Commit([tasks EXCEPT ![t] = Rejected(tasks[t])], chatHistories, currentChat, FALSE,
                    Rendered(user, accessToken))
  /\ UNCHANGED <<tokenVars, server, now, uuid, started>>

\* The effect that runs once when AuthProvider mounts
checkAuth(t) ==
  /\ Idle(t) /\ NoReady /\ authLoading
  /\ IF ApiIsAuthenticated
     THEN /\ tasks' = Request(t, [tasks EXCEPT ![t] = Op("checkAuth", "me")],
                              Endpoint("getCurrentUser", 0, <<>>), accessToken)
          /\ UNCHANGED <<authVars, chatVars, isAuthenticated>>
     ELSE /\ authLoading' = FALSE /\ UNCHANGED <<user, authError>>
          /\ Commit([tasks EXCEPT ![t] = Done(Op("checkAuth", ""), "anonymous")], chatHistories, currentChat, FALSE,
                    Rendered(user, accessToken))
  /\ UNCHANGED <<tokenVars, server, now, uuid, started>>

\* Mutant of checkAuth_Profile: the catch does not log out.
checkAuth_Profile_KeepsToken(t) ==
  /\ tasks[t].op = "checkAuth" /\ tasks[t].pc = "me" /\ tasks[t].res.st /= "none"
  /\ authLoading' = FALSE /\ authError' = authError
  /\ user' = IF tasks[t].res.st = "ok" THEN tasks[t].res.payload.user ELSE user
  /\ Commit([tasks EXCEPT ![t].pc = "done", ![t].res = NoResult], chatHistories, currentChat, FALSE,
            user' /= 0 /\ accessToken /= 0)
  /\ UNCHANGED <<tokenVars, server, now, uuid, started>>

\* checkAuth: /auth/me has been answered
checkAuth_Profile(t) ==
  /\ Ready(t, "checkAuth", "me")
  /\ authLoading' = FALSE /\ authError' = authError
  /\ IF tasks[t].res.st = "ok"
     THEN /\ user' = tasks[t].res.payload.user
          /\ Commit([tasks EXCEPT ![t] = Done(tasks[t], "restored")], chatHistories, currentChat, FALSE,
                    Rendered(tasks[t].res.payload.user, accessToken))
          /\ UNCHANGED tokenVars
     ELSE /\ user' = user
          /\ ApiLogout
          /\ Commit([tasks EXCEPT ![t] = Done(tasks[t], "invalid")], chatHistories, currentChat, FALSE,
                    Rendered(user, 0))
  /\ UNCHANGED <<server, now, uuid, started>>

\* The credentials a visitor may type
Credentials == {<<"a">>, <<"b">>}

\* register(data), up to the await of apiService.register
register(t, data) ==
  /\ Idle(t) /\ NoReady /\ started < MaxOps
  /\ started' = started + 1
  /\ authLoading' = TRUE /\ authError' = "" /\ user' = user
  /\ Commit(Request(t, [tasks EXCEPT ![t] = [Op("register", "register") EXCEPT !.arg = data]],
                    Endpoint("register", 0, data), accessToken),
            chatHistories, currentChat, FALSE, Rendered(user, accessToken))
  /\ UNCHANGED <<tokenVars, server, now, uuid>>

\* register's catch after login's: login maps the message and rethrows, then
\* register sets the raw message and rethrows.
register_Failed(t) ==
  /\ authError' = tasks[t].res.msg /\ authLoading' = FALSE /\ user' = user
  /\ Commit([tasks EXCEPT ![t] = Rejected(tasks[t])], chatHistories, currentChat, FALSE,
            Rendered(user, accessToken))

\* Mutant of register_Registered: login() is not called after the account creation.
register_Registered_NoLogin(t) ==
  /\ tasks[t].op = "register" /\ tasks[t].pc = "register" /\ tasks[t].res.st /= "none"
  /\ IF tasks[t].res.st = "ok"
     THEN /\ authLoading' = FALSE /\ authError' = authError /\ user' = user
          /\ Commit([tasks EXCEPT ![t].pc = "done", ![t].outcome = "registered", ![t].res = NoResult],
                    chatHistories, currentChat, FALSE, user /= 0 /\ accessToken /= 0)
     ELSE register_Failed(t)
  /\ UNCHANGED <<tokenVars, server, now, uuid, started>>

\* register: /auth/register has been answered; on success login() is called
register_Registered(t) ==
  /\ Ready(t, "register", "register")
  /\ IF tasks[t].res.st = "ok"
     THEN /\ authLoading' = TRUE /\ authError' = "" /\ user' = user
          /\ Commit(Request(t, [tasks EXCEPT ![t].pc = "login"], Endpoint("login", 0, tasks[t].arg), accessToken),
                    chatHistories, currentChat, FALSE, Rendered(user, accessToken))
     ELSE register_Failed(t)
  /\ UNCHANGED <<tokenVars, server, now, uuid, started>>

\* register: the /auth/login of its login() has been answered
register_LoggedIn(t) ==
  /\ Ready(t, "register", "login")
  /\ IF tasks[t].res.st = "ok"
     THEN /\ StoreTokens(tasks[t].res.payload.tokens)
          /\ tasks' = Request(t, [tasks EXCEPT ![t].pc = "me"], Endpoint("getCurrentUser", 0, <<>>),
                              tasks[t].res.payload.tokens)
          /\ UNCHANGED <<authVars, chatVars, isAuthenticated>>
     ELSE /\ register_Failed(t)
          /\ UNCHANGED tokenVars
  /\ UNCHANGED <<server, now, uuid, started>>

\* register: the /auth/me of its login() has been answered
register_Profile(t) ==
  /\ Ready(t, "register", "me")
  /\ IF tasks[t].res.st = "ok"
     THEN /\ user' = tasks[t].res.payload.user /\ authLoading' = FALSE /\ authError' = authError
          /\ Commit([tasks EXCEPT ![t] = Done(tasks[t], "registered")], chatHistories, currentChat, FALSE,
                    Rendered(tasks[t].res.payload.user, accessToken))
     ELSE register_Failed(t)
  /\ UNCHANGED <<tokenVars, server, now, uuid, started>>

logout ==
  /\ NoReady /\ started < MaxOps
  /\ started' = started + 1
  /\ ApiLogout
  /\ user' = 0 /\ authError' = "" /\ authLoading' = authLoading
  /\ Commit(tasks, chatHistories, currentChat, FALSE, FALSE)
  /\ UNCHANGED <<server, now, uuid>>

\* ----------------------------------------------------------- specification
\* The account's chat history on the backend when the page loads.
StoredSessions ==
  << [id |-> 2, title |-> AiTitle, created_at |-> 0, updated_at |-> 0,
      messages |-> <<ServerMessage(1, Hello, TRUE, 0), ServerMessage(2, AiReply, FALSE, 0)>>],
     [id |-> 1, title |-> NewConversation, created_at |-> 0, updated_at |-> 0, messages |-> <<>>] >>
InitialServers ==
  {EmptyServer, [sessions |-> StoredSessions, nextId |-> 3, nextMsgId |-> 3, issued |-> 1]}

\* The page has loaded with nothing in localStorage: checkAuth found no token
\* and set isLoading to false.
Init ==
  /\ InitCommon
  /\ authLoading = FALSE
  /\ localStorage = NoTokens
  /\ accessToken = 0
  /\ server \in InitialServers

\* The user's operations one at a time (task 1), the effect's loadChatSessions
\* calls beside them; the backend answers every call with success or an error.
Next ==
  \/ Tick
  \/ login(1) \/ login_LoggedIn(1) \/ login_Profile(1)
  \/ (Idle(1) /\ logout)
  \/ createNewChat(1) \/ createNewChat_Created(1)
  \/ \E i \in 1..Len(chatHistories) : selectChat(1, chatHistories[i].id)
  \/ selectChat_Loaded(1)
  \/ \E content \in Contents : sendMessage(1, content)
  \/ sendMessage_Created(1) \/ sendMessage_Posted(1) \/ sendMessage_Refetched(1)
  \/ sendMessage_Titled(1) \/ sendMessage_MockReply(1)
  \/ \E i \in 1..Len(chatHistories) : deleteChat(1, chatHistories[i].id)
  \/ deleteChat_Deleted(1)
  \/ \E r \in 2..MaxTasks : loadChatSessions_Listed(r) \/ loadChatSessions_Loaded(r)
  \/ \E t \in Tasks : FetchOk(t) \/ FetchError(t, MsgDetail) \/ Settle(t)

Spec == Init /\ [][Next]_vars

\* An anonymous visitor has started a conversation (createNewChat at time 0,
\* resolved) before anything else happens.
InitLocal ==
  /\ user = 0 /\ authError = "" /\ authLoading = FALSE
  /\ isAuthenticated = FALSE
  /\ localStorage = NoTokens /\ accessToken = 0
  /\ chatHistories = <<LocalChat(0)>> /\ currentChat = LocalChat(0)
  /\ tasks = [t \in Tasks |-> IdleTask]
  /\ now = 0 /\ uuid = 0 /\ started = 0
  /\ server \in InitialServers

\* The same operations, from the page load or from the visitor's local conversation on
SpecLocal == (Init \/ InitLocal) /\ [][Next]_vars

\* AuthProvider mounts over whatever an earlier visit left in localStorage; the
\* account has no chat session. The visitor's operations one at a time, after
\* checkAuth; the backend answers them with success, 401, another error, or not
\* at all, and the session reloads beside them with success or an error.
InitAuth ==
  /\ InitCommon
  /\ authLoading = TRUE
  /\ localStorage \in {NoTokens, [access_token |-> 1, refresh_token |-> 1], [access_token |-> 1, refresh_token |-> 0]}
  /\ accessToken = localStorage.access_token
  /\ server = EmptyServer

NextAuth ==
  \/ checkAuth(1) \/ checkAuth_Profile(1)
  \/ (~authLoading /\ login(1))
  \/ login_LoggedIn(1) \/ login_Profile(1)
  \/ \E data \in Credentials : ~authLoading /\ register(1, data)
  \/ register_Registered(1) \/ register_LoggedIn(1) \/ register_Profile(1)
  \/ (Idle(1) /\ ~authLoading /\ logout)
  \/ \E r \in 2..MaxTasks : loadChatSessions_Listed(r)
  \/ FetchUnauthorized(1) \/ FetchNetworkError(1)
  \/ \E t \in Tasks : FetchOk(t) \/ FetchError(t, MsgDetail) \/ Settle(t)

SpecAuth == InitAuth /\ [][NextAuth]_vars

\* A signed-in visitor whose last operation, createNewChat, has resolved and
\* whose session list has been reloaded since: the new, empty session is
\* current. It is the account's only session, or the account also has an older
\* session with an exchange in it.
SignedInServers ==
  {[sessions |-> <<ServerSession(1, NewConversation, 0)>>, nextId |-> 2, nextMsgId |-> 1, issued |-> 2],
   [sessions |-> <<ServerSession(2, NewConversation, 0),
                   [id |-> 1, title |-> AiTitle, created_at |-> 0, updated_at |-> 0,
                    messages |-> <<ServerMessage(1, Hello, TRUE, 0), ServerMessage(2, AiReply, FALSE, 0)>>]>>,
    nextId |-> 3, nextMsgId |-> 3, issued |-> 2]}

InitSignedIn ==
  /\ user = 1 /\ authError = "" /\ authLoading = FALSE
  /\ isAuthenticated = TRUE
  /\ accessToken = 2 /\ localStorage = [access_token |-> 2, refresh_token |-> 2]
  /\ server \in SignedInServers
  /\ chatHistories = [i \in 1..Len(server.sessions) |-> convertApiChatToLocal(ChatSessionJson(server.sessions[i]), <<>>)]
  /\ currentChat = chatHistories[1]
  /\ tasks = [t \in Tasks |-> IdleTask]
  /\ now = 0 /\ uuid = 0 /\ started = 0

\* The user calls a callback while others are still in flight: the call takes
\* the first free slot.
Calls(t) == Idle(t) /\ \A q \in 1..(t - 1) : ~Idle(q)

\* The chat operations in any interleaving, each started before or after the
\* others resolve, for the signed-in visitor and for the anonymous one with a
\* local conversation; the backend answers every call with success.
NextConcurrent ==
  \/ \E t \in Tasks : Calls(t) /\ createNewChat(t)
  \/ \E t \in Tasks : createNewChat_Created(t)
  \/ \E t \in Tasks : \E i \in 1..Len(chatHistories) : Calls(t) /\ selectChat(t, chatHistories[i].id)
  \/ \E t \in Tasks : selectChat_Loaded(t)
  \/ \E t \in Tasks : \E content \in Contents : Calls(t) /\ sendMessage(t, content)
  \/ \E t \in Tasks : sendMessage_Created(t) \/ sendMessage_Posted(t) \/ sendMessage_Refetched(t)
  \/ \E t \in Tasks : sendMessage_Titled(t) \/ sendMessage_MockReply(t)
  \/ \E t \in Tasks : \E i \in 1..Len(chatHistories) : Calls(t) /\ deleteChat(t, chatHistories[i].id)
  \/ \E t \in Tasks : deleteChat_Deleted(t)
  \/ \E r \in Tasks : loadChatSessions_Listed(r) \/ loadChatSessions_Loaded(r)
  \/ \E t \in Tasks : FetchOk(t) \/ Settle(t)

SpecConcurrent == (InitSignedIn \/ InitLocal) /\ [][NextConcurrent]_vars

\* ------------------------------------------------------ the request executor
CountNet(net, name) == Cardinality({i \in 1..Len(net) : net[i].name = name})
Settled(t) == tasks[t].op = "request" /\ tasks[t].res.st /= "none"
\* The first response was 401 and the request carried an access token.
FirstUnauthorized(net) == Len(net) >= 1 /\ net[1].status = "401" /\ net[1].hdr /= 0

\* C3: a request whose first response is 401, with an access token attached
\* and a refresh token stored, issues exactly one call to the refresh endpoint
\* and at most one retry of the original request, whatever the backend answers
\* afterwards.
C3_ExactlyOneRefresh ==
  \A t \in Tasks :
    (FirstUnauthorized(tasks[t].net) /\ Len(tasks[t].net) >= 2)
      => /\ CountNet(tasks[t].net, "refreshToken") = 1
         /\ CountNet(tasks[t].net, tasks[t].net[1].name) <= 2

\* C4: a request that got 401 with an access token attached and then (a) found
\* no refresh token, (b) saw the refresh call fail or (c) saw the retry fail,
\* finishes with the token store empty in memory and in localStorage and with
\* 'Authentication required' (a) or 'Authentication failed' (b, c).
C4_ForcedLogout ==
  \A t \in Tasks :
    LET net == tasks[t].net IN
    (Settled(t) /\ FirstUnauthorized(net) /\ net[Len(net)].status /= "200")
      => /\ tasks[t].res.st = "error"
         /\ accessToken = 0
         /\ localStorage = NoTokens
         /\ tasks[t].res.msg = (IF Len(net) = 1 THEN MsgAuthRequired ELSE MsgAuthFailed)

\* Case (c) has happened: 401, a successful refresh, then a failed retry.
C4_Witness ==
  \E t \in Tasks :
    /\ Settled(t) /\ FirstUnauthorized(tasks[t].net) /\ Len(tasks[t].net) = 3
    /\ tasks[t].net[2].name = "refreshToken" /\ tasks[t].net[2].status = "200"
    /\ tasks[t].net[3].name = tasks[t].net[1].name /\ tasks[t].net[3].status = "500"

\* C5: every request settles after at most three backend calls (the original
\* request, one refresh, one retry): the refresh call never starts a further
\* refresh.
C5_AtMostThreeCalls ==
  \A t \in Tasks : Len(tasks[t].net) <= 3

\* C6: when any fetch made on behalf of a request failed at the transport
\* level, the caller receives the connectivity error, never an authentication
\* failure.
C6_ConnectivityError ==
  \A t \in Tasks :
    (Settled(t) /\ \E i \in 1..Len(tasks[t].net) : tasks[t].net[i].status = "network")
      => tasks[t].res.msg = MsgBackendDown

\* The scenario of C7: 401 with the stored access token, the refresh call
\* succeeds, the retry succeeds.
TransparentRefresh(t) ==
  /\ Settled(t) /\ FirstUnauthorized(tasks[t].net) /\ Len(tasks[t].net) = 3
  /\ tasks[t].net[2].name = "refreshToken" /\ tasks[t].net[2].status = "200"
  /\ tasks[t].net[3].name = tasks[t].net[1].name /\ tasks[t].net[3].status = "200"

\* C7: in that scenario the caller gets the retry's payload and no error, the
\* token store holds, in memory and in localStorage, the pair the refresh
\* endpoint returned, and the retry carried the new access token.
C7_TransparentRefresh ==
  \A t \in Tasks :
    TransparentRefresh(t)
      => /\ tasks[t].res = Returned(Serve(Endpoint(tasks[t].net[1].name, 0, <<>>)).payload)
         /\ accessToken = server.issued
         /\ localStorage = [access_token |-> server.issued, refresh_token |-> server.issued]
         /\ tasks[t].net[3].hdr = server.issued
         /\ tasks[t].net[3].hdr /= tasks[t].net[1].hdr

C7_Witness == \E t \in Tasks : TransparentRefresh(t)

\* ---------------------------------------------------------- the chat core
\* sendMessage has resolved on an authenticated remote session.
SentRemote(t) ==
  /\ tasks[t].op = "sendMessage" /\ tasks[t].pc = "done"
  /\ tasks[t].isAuthenticated /\ tasks[t].targetChat /= NullChat /\ ~IsLocalId(tasks[t].targetChat.id)
\* The backend's message log of the call's session, as the client converts it
ServerView(t) ==
  IF ServerHas(parseInt(tasks[t].targetChat.id))
  THEN convertMessages(ServerLog(parseInt(tasks[t].targetChat.id)))
  ELSE <<>>
InSync(t) == currentChat.id = tasks[t].targetChat.id /\ currentChat.messages = ServerView(t)
\* The call with the given name of this operation was answered with an error.
Failed(t, name) == \E i \in 1..Len(tasks[t].net) : tasks[t].net[i].name = name /\ tasks[t].net[i].status /= "200"
Succeeded(t, name) == \E i \in 1..Len(tasks[t].net) : tasks[t].net[i].name = name /\ tasks[t].net[i].status = "200"

\* C1: after every sendMessage on an authenticated remote session,
\* whatever the backend answered to its calls, the current session's message
\* log equals the server's log of that session.
C1_Reconciliation ==
  \A t \in Tasks : SentRemote(t) => InSync(t)

\* The dispatch of a resolved sendMessage threw: the POST or the re-fetch failed.
DispatchThrew(t) ==
  /\ tasks[t].op = "sendMessage" /\ tasks[t].pc = "done"
  /\ (Failed(t, "sendMessage") \/ Failed(t, "getChatMessages"))

\* C2: when the dispatch threw, the current session and the Directory entry of
\* that session are the snapshot (targetChat) taken before the optimistic
\* append, in messages, title and updatedAt, and the optimistic user message is
\* gone from the view.
C2_Rollback ==
  \A t \in Tasks :
    DispatchThrew(t)
      => /\ currentChat = tasks[t].targetChat
         /\ \A i \in 1..Len(chatHistories) :
              chatHistories[i].id = tasks[t].targetChat.id => chatHistories[i] = tasks[t].targetChat
         /\ \A i \in 1..Len(currentChat.messages) :
              currentChat.messages[i] /= tasks[t].updatedChat.messages[Len(tasks[t].updatedChat.messages)]

\* The re-fetch failed after a successful POST, at a later time than the
\* snapshot's updatedAt, on a session that had messages.
C2_Witness ==
  \E t \in Tasks :
    /\ DispatchThrew(t) /\ Succeeded(t, "sendMessage")
    /\ Has(chatHistories, tasks[t].targetChat.id)
    /\ tasks[t].updatedChat.updatedAt /= tasks[t].targetChat.updatedAt
    /\ Len(tasks[t].targetChat.messages) > 0

\* The server delete of a deleteChat on a remote session is being answered.
DeleteAnswered(t) ==
  /\ tasks[t].op = "deleteChat" /\ tasks[t].pc = "delete" /\ tasks[t].res.st /= "none"
  /\ tasks'[t].pc = "done"

MockContents == {mockResponses[i] : i \in 1..Len(mockResponses)}

\* C9: createNewChat, selectChat and sendMessage called while unauthenticated
\* issue no backend call, and sendMessage's reply is one of the canned responses.
C9_AnonymousNoNetwork ==
  \A t \in Tasks :
    (tasks[t].op \in {"createNewChat", "selectChat", "sendMessage"} /\ ~tasks[t].isAuthenticated)
      => /\ tasks[t].net = <<>>
         /\ tasks[t].stack = <<>>
         /\ (tasks[t].op = "sendMessage" /\ tasks[t].pc = "done")
              => LET reply == currentChat.messages[Len(currentChat.messages)] IN
                 /\ reply.role = "assistant"
                 /\ reply.content \in MockContents
                 /\ Len(currentChat.messages) = Len(tasks[t].targetChat.messages) + 2

\* An anonymous sendMessage has resolved with its canned reply.
C9_Witness ==
  \E t \in Tasks :
    /\ tasks[t].op = "sendMessage" /\ tasks[t].pc = "done" /\ ~tasks[t].isAuthenticated
    /\ Len(currentChat.messages) = 2

\* The loadChatSessions call started by the transition to authenticated
\* completes successfully in this step.
ReloadCompletes(r) ==
  /\ tasks[r].op = "loadChatSessions" /\ tasks[r].arg = OnLogin /\ tasks[r].res.st = "ok"
  /\ tasks' /= tasks
  /\ ~(tasks[r].pc = "sessions" /\ tasks'[r].op = "loadChatSessions" /\ tasks'[r].pc = "messages")
\* The backend's session list and the most recent session, as the client converts them
ServerDirectory == [i \in 1..Len(server.sessions) |-> convertApiChatToLocal(server.sessions[i], <<>>)]
ServerMostRecent == convertApiChatToLocal(server.sessions[1], server.sessions[1].messages)

\* C10: when the reload after a transition to authenticated completes
\* successfully, the Directory equals the server's session list and, if that
\* list is non-empty, the current session is the most recent server session
\* with the server's message log, whatever was held before.
C10_ReloadOnLogin ==
  [][\A r \in Tasks :
       ReloadCompletes(r)
         => /\ chatHistories' = ServerDirectory
            /\ (Len(server.sessions) > 0 => currentChat' = ServerMostRecent)]_vars

\* The local-namespace sessions of a Directory, in its order
LocalSessions(h) == SelectSeq(h, LAMBDA c : startsWith(c.id, LocalPrefix))
\* The provider goes from authenticated to unauthenticated in this step.
LoggingOut == isAuthenticated /\ ~isAuthenticated'

\* C11: on every transition to unauthenticated, the Directory afterwards is
\* exactly the local-namespace sessions that were in it, in the same order, and
\* the current pointer is null unless it pointed at a local-namespace session,
\* which it then still points at.
C11_LogoutKeepsLocal ==
  [][LoggingOut
       => /\ chatHistories' = LocalSessions(chatHistories)
          /\ currentChat' = IF startsWith(currentChat.id, LocalPrefix) THEN currentChat ELSE NullChat]_vars

\* The user has logged out while the reload started at login was still in
\* flight, with a local session in the Directory and in focus.
C11_Witness ==
  /\ ~isAuthenticated /\ user = 0 /\ accessToken = 0
  /\ \E r \in Tasks : tasks[r].op = "loadChatSessions" /\ tasks[r].arg = OnLogin
  /\ Len(chatHistories) > 0 /\ IsLocalId(currentChat.id)

\* The id a request was built with: the id of a pending frame
CarriesLocalId(t) ==
  \E i \in 1..Len(tasks[t].stack) :
    /\ tasks[t].stack[i].endpoint.name \in {"getChatMessages", "sendMessage", "deleteChatSession", "updateSessionTitle"}
    /\ tasks[t].stack[i].endpoint.id = NaN
\* The session an operation in flight is about
Subject(t) ==
  CASE tasks[t].op \in {"selectChat", "deleteChat"} -> tasks[t].arg
    [] tasks[t].op = "sendMessage" -> tasks[t].targetChat.id
    [] OTHER -> <<>>

\* C12: no backend request carries a local-namespace id; selectChat,
\* sendMessage and deleteChat on a local session issue no network call, logged
\* in or not; and sendMessage keeps the id of the session it works on: its
\* optimistic, final and reverted copies, in the current view and in the
\* Directory, have the id of the session it was called on.
C12_Namespace ==
  \A t \in Tasks :
    /\ ~CarriesLocalId(t)
    /\ IsLocalId(Subject(t)) => (tasks[t].net = <<>> /\ tasks[t].stack = <<>>)
    /\ (tasks[t].op = "sendMessage" /\ tasks[t].targetChat /= NullChat)
         => /\ tasks[t].updatedChat.id = tasks[t].targetChat.id
            /\ tasks[t].finalChat \in {NullChat} \/ tasks[t].finalChat.id = tasks[t].targetChat.id
            /\ IsLocalId(tasks[t].targetChat.id) => (tasks[t].pc = "done" => IsLocalId(currentChat.id))

\* While logged in, a message was sent on a local session and answered from
\* the canned responses.
C12_Witness ==
  \E t \in Tasks :
    /\ tasks[t].op = "sendMessage" /\ tasks[t].pc = "done" /\ tasks[t].isAuthenticated
    /\ IsLocalId(tasks[t].targetChat.id) /\ tasks[t].outcome = "mock"

\* sendMessage has resolved after the reconciliation of the first message of
\* an authenticated remote session.
FirstMessageReconciled(t) ==
  /\ SentRemote(t) /\ Len(tasks[t].targetChat.messages) = 0
  /\ Succeeded(t, "sendMessage") /\ Succeeded(t, "getChatMessages")
\* The title the backend holds for the call's session
ServerTitle(t) == server.sessions[ServerIndex(parseInt(tasks[t].targetChat.id))].title

\* C13: for the first message of an authenticated remote session, the title
\* call is issued after the re-fetch; when it succeeds, the current session and
\* the Directory entry of the session carry the title the server returned, not
\* the truncation of the message; when it alone fails, the session in view
\* keeps the reconciled messages.
C13_AutoTitle ==
  \A t \in Tasks :
    FirstMessageReconciled(t)
      => LET net == tasks[t].net
             id == tasks[t].targetChat.id
         IN /\ Len(net) >= 3
            /\ net[Len(net)].name = "updateSessionTitle"
            /\ net[Len(net) - 1].name = "getChatMessages"
            /\ net[Len(net) - 2].name = "sendMessage"
            /\ Succeeded(t, "updateSessionTitle")
                 => /\ currentChat.id = id
                    /\ currentChat.title = ServerTitle(t)
                    /\ currentChat.title /= tasks[t].updatedChat.title
                    /\ \A i \in 1..Len(chatHistories) :
                         chatHistories[i].id = id => chatHistories[i].title = ServerTitle(t)
            /\ Failed(t, "updateSessionTitle")
                 => (currentChat.id = id
                       => /\ currentChat.messages = ServerView(t)
                          /\ currentChat.messages /= tasks[t].targetChat.messages)

\* The first message, longer than the truncation, was sent and titled by the
\* server, and the session is in the Directory.
C13_Witness ==
  \E t \in Tasks :
    /\ FirstMessageReconciled(t) /\ Succeeded(t, "updateSessionTitle")
    /\ Len(tasks[t].arg) > TitleMax
    /\ Has(chatHistories, tasks[t].targetChat.id)

\* selectChat has resolved.
Selected(t) == tasks[t].op = "selectChat" /\ tasks[t].pc = "done"

\* C14: after selectChat on a local id, the current session is the Directory's
\* session of that id and no request was made; after selectChat on a remote id
\* while authenticated, with the message log fetched successfully, the current
\* session and the Directory entry of that id both hold the fetched log.
C14_SelectChat ==
  \A t \in Tasks :
    Selected(t)
      => IF IsLocalId(tasks[t].arg)
         THEN /\ tasks[t].net = <<>>
              /\ currentChat = Find(chatHistories, tasks[t].arg)
         ELSE (tasks[t].isAuthenticated /\ Succeeded(t, "getChatMessages"))
                => LET log == convertMessages(ServerLog(parseInt(tasks[t].arg))) IN
                   /\ currentChat.id = tasks[t].arg
                   /\ currentChat.messages = log
                   /\ Find(chatHistories, tasks[t].arg).messages = log

\* The one backend call of a load, list or create has not succeeded: it is
\* pending or was answered with an error.
LoadCalls == {"getChatSessions", "getChatMessages", "createChatSession"}
Unsuccessful(task) ==
  /\ task.op \in {"selectChat", "loadChatSessions", "createNewChat", "sendMessage"}
  /\ Len(task.net) >= 1
  /\ task.net[Len(task.net)].name \in LoadCalls
  /\ task.net[Len(task.net)].status /= "200"
  /\ task.op = "sendMessage" => task.pc = "create"
\* The operation takes a step.
Steps(t) == tasks'[t] /= tasks[t]
\* The operation's failed call has been handled: it ends without the call's result.
EndsFailed(t) == Unsuccessful(tasks[t]) /\ tasks[t].res.st = "error" /\ Steps(t)

\* C15 amended: a failed call of selectChat, of the session-list reload, of
\* createNewChat or of sendMessage's session creation changes neither the
\* Directory nor the current pointer from what they were when the call was
\* issued by any step the operation takes, the operation ends there without an
\* error, and sendMessage neither appends nor sends a message.
C15_FailureChangesNothing ==
  [][\A t \in Tasks :
       (Unsuccessful(tasks[t]) /\ Steps(t))
         => /\ UNCHANGED chatVars
            /\ tasks[t].res.st = "error"
                 => /\ tasks'[t].pc = "done" \/ tasks'[t] = IdleTask
                    /\ tasks'[t].stack = <<>>
                    /\ tasks[t].op = "sendMessage"
                         => (uuid' = uuid /\ tasks'[t].net = tasks[t].net /\ tasks'[t].updatedChat = NullChat)]_vars

\* C15: as above and, whichever call of the operation failed, the Directory
\* is as it was before the operation started: a reload that ends with a failed
\* call has not replaced the Directory.
C15_FailuresLeaveState ==
  [][\A t \in Tasks :
       EndsFailed(t)
         => /\ UNCHANGED chatVars
            /\ tasks[t].outcome /= "replaced"]_vars

\* sendMessage has ended on the failure of its session creation, and a reload
\* has failed to list the sessions before.
C15_Witness ==
  \E t \in Tasks :
    /\ tasks[t].op = "sendMessage" /\ tasks[t].pc = "done"
    /\ Len(tasks[t].net) = 1 /\ tasks[t].net[1].name = "createChatSession" /\ tasks[t].net[1].status = "500"
    /\ isAuthenticated /\ \A r \in 2..MaxTasks : Idle(r) /\ chatHistories = <<>> /\ Len(server.sessions) > 0

\* C20: a local session's id differs from the id of every other session in the
\* Directory, whatever the creations were and whenever they happened.
C20_LocalIdsDistinct ==
  \A i, j \in 1..Len(chatHistories) :
    (i /= j /\ IsLocalId(chatHistories[i].id)) => chatHistories[i].id /= chatHistories[j].id

\* ------------------------------------------------------------- the session
\* The position in an operation's network log of its answered account creation
Created(t) == {i \in 1..Len(tasks[t].net) : tasks[t].net[i].name = "register" /\ tasks[t].net[i].status = "200"}
\* register has finished after a successful account creation.
Registered(t) == tasks[t].op = "register" /\ tasks[t].pc = "done" /\ Created(t) /= {}
\* The last call of the operation was the profile fetch, and it succeeded.
ProfileFetched(t) ==
  LET net == tasks[t].net IN
  Len(net) > 0 /\ net[Len(net)].name = "getCurrentUser" /\ net[Len(net)].status = "200"
\* The call that follows the account creation is the login with the data register was given.
LoginFollows(t) ==
  /\ \A i \in Created(t) : i < Len(tasks[t].net) => tasks[t].net[i + 1].name = "login"
  /\ \A i \in 1..Len(tasks[t].stack) :
       tasks[t].stack[i].endpoint.name = "login" => tasks[t].stack[i].endpoint.body = tasks[t].arg

CheckAuthStarts == authLoading /\ Idle(1) /\ tasks'[1].op = "checkAuth"
CheckAuthEnds == tasks[1].op = "checkAuth" /\ tasks[1].pc = "me" /\ tasks[1].res.st /= "none" /\ tasks'[1] /= tasks[1]

\* C17: at startup, with an access token stored the profile is fetched with it
\* and user is set on success; when the fetch fails, for whatever reason, the
\* token store is cleared and user stays null; with no token no request is
\* made; isLoading is false when checkAuth ends.
C17_StartupRestoration ==
  [][/\ CheckAuthStarts
          => IF accessToken = 0
             THEN tasks'[1].net = <<>> /\ tasks'[1].pc = "done" /\ ~authLoading' /\ user' = 0
             ELSE /\ tasks'[1].net = <<[name |-> "getCurrentUser", hdr |-> accessToken, status |-> "pending"]>>
                  /\ user' = 0
     /\ CheckAuthEnds
          => /\ tasks'[1].pc = "done"
             /\ ~authLoading'
             /\ IF tasks[1].res.st = "ok"
                THEN user' = tasks[1].res.payload.user /\ user' /= 0 /\ accessToken' /= 0
                ELSE user' = 0 /\ ~isAuthenticated' /\ accessToken' = 0 /\ localStorage' = NoTokens]_vars

\* checkAuth has ended after a profile fetch that failed at the transport
\* level, with the token store cleared.
C17_Witness ==
  /\ tasks[1].op = "checkAuth" /\ tasks[1].pc = "done"
  /\ Len(tasks[1].net) = 1 /\ tasks[1].net[1].status = "network" /\ tasks[1].net[1].hdr /= 0
  /\ accessToken = 0 /\ ~authLoading

\* The message login shows for an error, by the error's class
ShownFor(msg) ==
  IF msg = MsgBackendDown THEN "Backend server is not running. Please start the backend server."
  ELSE IF msg = "Authentication required" THEN "Please check your credentials and try again."
  ELSE IF msg = "Authentication failed" THEN "Session expired. Please login again."
  ELSE msg
LoginStarts == Idle(1) /\ tasks'[1].op = "login"
LoginEnds == tasks[1].op = "login" /\ tasks'[1].op = "login" /\ tasks'[1].pc = "done"

\* C18: login clears error before its call is issued; when it fails, error is
\* the message of the failure's class, the error is rethrown, user is unchanged
\* and isLoading is false; when it succeeds, user is the fetched profile, error
\* is still null and isLoading is false.
C18_LoginOutcome ==
  [][/\ LoginStarts
          => /\ authError' = "" /\ authLoading'
             /\ Len(tasks'[1].net) = 1 /\ tasks'[1].net[1].name = "login" /\ tasks'[1].net[1].status = "pending"
     /\ (tasks[1].op = "login" /\ tasks'[1].op = "login" /\ tasks'[1].pc /= "done") => authError' = ""
     /\ LoginEnds
          => /\ ~authLoading'
             /\ IF tasks[1].res.st = "error"
                THEN /\ authError' = ShownFor(tasks[1].res.msg)
                     /\ tasks'[1].res = tasks[1].res
                     /\ user' = user
                ELSE /\ tasks[1].pc = "me"
                     /\ user' = tasks[1].res.payload.user /\ user' /= 0
                     /\ authError' = ""]_vars

\* login has failed on an expired session: the stored token was refused and
\* could not be refreshed.
C18_Witness ==
  /\ tasks[1].op = "login" /\ tasks[1].pc = "done"
  /\ tasks[1].res.msg = MsgAuthFailed
  /\ authError = "Session expired. Please login again."

\* C19: the token in memory is the one in localStorage, so isAuthenticated()
\* is true iff an access token is persisted, and every request is built with
\* the Authorization header of the token present at that moment, and with none
\* when there is no token.
C19_TokenStore ==
  [][/\ accessToken = localStorage.access_token
     /\ accessToken' = localStorage'.access_token
     /\ ApiIsAuthenticated <=> (localStorage.access_token /= 0)
     /\ \A t \in Tasks :
          (Len(tasks'[t].net) > 0 /\ tasks'[t].net /= tasks[t].net
             /\ tasks'[t].net[Len(tasks'[t].net)].status = "pending")
            => tasks'[t].net[Len(tasks'[t].net)].hdr = accessToken']_vars

\* After a login and the emptying of the token store (a logout, or a forced
\* one), a request is in flight without an Authorization header.
C19_Witness ==
  \E t \in Tasks :
    /\ Len(tasks[t].net) = 1 /\ tasks[t].net[1].hdr = 0 /\ tasks[t].net[1].status = "pending"
    /\ server.issued > 1 /\ accessToken = 0 /\ localStorage = NoTokens

\* ------------------------------------------------ the start of sendMessage
\* sendMessage has made its optimistic update and awaits the POST's answer or
\* the end of the artificial delay.
Dispatched(t) ==
  tasks[t].op = "sendMessage" /\ tasks[t].pc \in {"post", "delay"} /\ tasks[t].res.st = "none"

\* The session `chat` is the target session with the user message appended,
\* under the speculative title if the target's log was empty.
ShowsMessage(chat, t) ==
  LET target == tasks[t].targetChat
      n == Len(chat.messages)
  IN /\ chat.id = target.id
     /\ n = Len(target.messages) + 1
     /\ SubSeq(chat.messages, 1, n - 1) = target.messages
     /\ chat.messages[n].content = tasks[t].arg /\ chat.messages[n].role = "user"
     /\ chat.title = IF target.messages = <<>>
                     THEN slice0(tasks[t].arg, 30) \o <<".", ".", ".">>
                     ELSE target.title

Shown(t) ==
  /\ ShowsMessage(currentChat, t)
  /\ \A i \in 1..Len(chatHistories) :
       chatHistories[i].id = tasks[t].targetChat.id => ShowsMessage(chatHistories[i], t)

\* C22: once sendMessage has resolved its target session, the current session
\* and the Directory entry of that session show the new user message as the
\* last element of the log, under the first 30 characters of the content and
\* '...' as title if the log was empty and under the old title otherwise, and
\* they go on doing so until a backend response arrives or the delay ends.
C22_OptimisticAppend ==
  [][\A t \in Tasks :
       /\ (~Dispatched(t) /\ Dispatched(t)') => Shown(t)'
       /\ (Dispatched(t) /\ Shown(t) /\ NoReady /\ Dispatched(t)') => Shown(t)']_vars

\* A first message has been sent to a remote session of the Directory: the
\* entry and the current session show it under the speculative title, the POST
\* unanswered.
C22_Witness ==
  \E t \in Tasks :
    /\ Dispatched(t) /\ tasks[t].pc = "post" /\ Awaiting(t)
    /\ tasks[t].targetChat.messages = <<>> /\ tasks[t].arg = LongContent
    /\ Has(chatHistories, tasks[t].targetChat.id)
    /\ Find(chatHistories, tasks[t].targetChat.id) = currentChat
    /\ Len(currentChat.title) = 33

SendStarts(t) == Idle(t) /\ tasks'[t].op = "sendMessage"
SendCreated(t) ==
  /\ tasks[t].op = "sendMessage" /\ tasks[t].pc = "create" /\ tasks[t].res.st = "ok"
  /\ tasks'[t] /= tasks[t]
\* The new session is first in the Directory, before the sessions that were
\* there (of which an anonymous visitor keeps the local ones), is current, and
\* holds exactly the user message.
NewSessionHolds(content) ==
  /\ Len(chatHistories') >= 1
  /\ chatHistories'[1] = currentChat'
  /\ Tail(chatHistories') = IF isAuthenticated THEN chatHistories
                            ELSE SelectSeq(chatHistories, LAMBDA c : IsLocalId(c.id))
  /\ Len(currentChat'.messages) = 1
  /\ currentChat'.messages[1].content = content /\ currentChat'.messages[1].role = "user"

\* C23: sendMessage with no current session creates exactly one session, by
\* one create-session call if authenticated and locally with no backend call
\* otherwise; the session is prepended to the Directory, becomes current and
\* receives the user message. With a current session no session is created.
C23_TargetResolution ==
  [][\A t \in Tasks :
       /\ (SendStarts(t) /\ currentChat /= NullChat)
            => /\ CountNet(tasks'[t].net, "createChatSession") = 0
               /\ tasks'[t].pc \in {"post", "delay"}
               /\ tasks'[t].targetChat = currentChat
               /\ Len(chatHistories') = Len(chatHistories)
               /\ currentChat'.id = currentChat.id
               /\ server' = server
       /\ (SendStarts(t) /\ currentChat = NullChat /\ ~isAuthenticated)
            => /\ tasks'[t].net = <<>>
               /\ server' = server
               /\ IsLocalId(currentChat'.id)
               /\ NewSessionHolds(tasks'[t].arg)
       /\ (SendStarts(t) /\ currentChat = NullChat /\ isAuthenticated)
            => /\ tasks'[t].net = <<[name |-> "createChatSession", hdr |-> accessToken, status |-> "pending"]>>
               /\ UNCHANGED chatVars
       /\ SendCreated(t)
            => /\ CountNet(tasks'[t].net, "createChatSession") = 1
               /\ currentChat'.id = toString(tasks[t].res.payload.sessions[1].id)
               /\ ~Has(chatHistories, currentChat'.id)
               /\ ServerHas(parseInt(currentChat'.id))
               /\ NewSessionHolds(tasks[t].arg)]_vars

\* A signed-in visitor with no current session has sent a message: one session
\* was created on the backend for it, and the message is being posted to it.
C23_Witness ==
  \E t \in Tasks :
    /\ tasks[t].op = "sendMessage" /\ tasks[t].pc = "post"
    /\ Len(tasks[t].net) = 2 /\ tasks[t].net[1].name = "createChatSession" /\ tasks[t].net[1].status = "200"
    /\ tasks[t].net[2].name = "sendMessage"
    /\ chatHistories[1] = currentChat /\ currentChat.id = tasks[t].targetChat.id

\* ---------------------------------------------------- concurrent operations
\* The messages of a session that came from the backend: their ids are the
\* backend's numbers, not uuidv4() values.
ServerKnown(chat) == Cardinality({i \in 1..Len(chat.messages) : Head(chat.messages[i].id) /= "u"})

\* sendMessage call t has resolved on a remote session that is current, with its
\* log re-fetched; no other sendMessage is in flight, and while t was in flight
\* another sendMessage was posted to the same session (the backend holds two
\* exchanges more than t's target did).
BothSendsResolved(t) ==
  /\ tasks[t].op = "sendMessage" /\ tasks[t].pc = "done"
  /\ tasks[t].outcome \in {"reconciled", "titled"}
  /\ \A q \in Tasks \ {t} : tasks[q].op /= "sendMessage"
  /\ currentChat.id = tasks[t].targetChat.id
  /\ ServerHas(parseInt(currentChat.id))
  /\ Len(ServerLog(parseInt(currentChat.id))) >= ServerKnown(tasks[t].targetChat) + 4

\* C21: when two sendMessage calls overlap on an authenticated remote session
\* and both have resolved, the session's message log is the log of the message
\* re-fetch that was answered last. Every call is answered with success and
\* in the order of its handling by the backend, so the last re-fetch, made
\* after both POSTs, returned the whole log the backend stores.
C21_ConcurrentSends ==
  \A t \in Tasks :
    BothSendsResolved(t) => currentChat.messages = convertMessages(ServerLog(parseInt(currentChat.id)))

\* s is a prefix of r.
IsPrefix(s, r) == Len(s) <= Len(r) /\ SubSeq(r, 1, Len(s)) = s

\* A step of sendMessage call t: the call itself, or one of its continuations.
SendStep(t) == tasks'[t].op = "sendMessage" /\ tasks'[t] /= tasks[t]

\* C24: a local session is append-only in every interleaving of sendMessage
\* calls: every step of a sendMessage call on the current local session leaves
\* every message of its log in place and only adds messages at the end.
C24_LocalAppendOnly ==
  [][\A t \in Tasks :
       (/\ SendStep(t)
        /\ currentChat /= NullChat /\ IsLocalId(currentChat.id)
        /\ tasks'[t].targetChat.id = currentChat.id)
         => /\ currentChat'.id = currentChat.id
            /\ IsPrefix(currentChat.messages, currentChat'.messages)]_vars

\* deleteChat(id) takes the session out of the Directory: the local branch at
\* the call, the remote one when the server delete has been answered.
DeleteCompletes(t) ==
  /\ tasks'[t].op = "deleteChat" /\ tasks'[t].pc = "done" /\ tasks'[t].outcome \in {"local", "deleted"}
  /\ tasks[t].pc /= "done"

\* The sessions of a Directory, by id and in order
Ids(h) == [i \in 1..Len(h) |-> h[i].id]

\* C27: deleteChat(id) removes only the session with that id: the other
\* sessions of the Directory at the moment the delete completes, those added
\* while the server delete was in flight included, are all in the Directory
\* afterwards, in the same order.
C27_DeleteRemovesOnlyTarget ==
  [][\A t \in Tasks :
       DeleteCompletes(t)
         => Ids(SelectSeq(chatHistories', LAMBDA c : c.id /= tasks'[t].arg /\ Has(chatHistories, c.id)))
              = Ids(SelectSeq(chatHistories, LAMBDA c : c.id /= tasks'[t].arg))]_vars

\* C28: sendMessage on a remote session for which the backend already stores
\* messages leaves the session's title as it is, whichever operation made the
\* session current.
C28_TitleOnlyForFirstMessage ==
  [][\A t \in Tasks :
       (/\ SendStarts(t)
        /\ currentChat /= NullChat /\ ~IsLocalId(currentChat.id)
        /\ ServerHas(parseInt(currentChat.id))
        /\ ServerLog(parseInt(currentChat.id)) /= <<>>)
         => /\ currentChat'.id = currentChat.id
            /\ currentChat'.title = currentChat.title]_vars

\* --------------------------------------------------- invariants of the views
\* C25: in every reachable state the current pointer is null or has the id of
\* a session that is in the Directory.
C25_CurrentInDirectory ==
  currentChat = NullChat \/ Has(chatHistories, currentChat.id)

\* Nobody is signed in: no user, no token, and ChatProvider renders so.
Anonymous == user = 0 /\ accessToken = 0 /\ ~isAuthenticated

\* C26: while nobody is signed in, the current pointer refers to no session of
\* the remote namespace and the Directory holds none.
C26_NoRemoteWhileAnonymous ==
  Anonymous
    => /\ currentChat = NullChat \/ IsLocalId(currentChat.id)
       /\ \A i \in 1..Len(chatHistories) : IsLocalId(chatHistories[i].id)

\* No chat operation and no session reload is in flight.
ChatQuiet == \A t \in Tasks : Idle(t)

\* C29: whenever the current pointer refers to a remote session and no chat
\* operation is in flight, the current session's message log is the log the
\* backend stores for that session.
C29_CurrentLogIsServerLog ==
  (ChatQuiet /\ currentChat /= NullChat /\ ~IsLocalId(currentChat.id))
    => /\ ServerHas(parseInt(currentChat.id))
       /\ currentChat.messages = convertMessages(ServerLog(parseInt(currentChat.id)))

\* No login, register or startup restoration is in flight or still to run.
AuthQuiet == ~authLoading /\ \A t \in Tasks : tasks[t].op \notin {"login", "register", "checkAuth"}

\* C30: whenever no login, register or startup restoration is in flight, user
\* is non-null exactly when the token store holds an access token.
C30_UserIffToken ==
  AuthQuiet => ((user /= 0) <=> (accessToken /= 0))

====
